---- MODULE Spec2Model ----
(***************************************************************************)
(* A model of the honeybadger-go client: the Context map (context.go) and  *)
(* the reporting client (honeybadger.go: New, detectProjectRoot, Report,   *)
(* Reportf, buildNotice, filterPath, stacktraceFrames, extractErrorID).    *)
(*                                                                         *)
(* Strings that the code inspects character by character (file paths, the  *)
(* status-code message) are sequences of one-character strings.            *)
(***************************************************************************)
EXTENDS Naturals, Integers, Sequences, FiniteSets, TLC

VARIABLES
    ctx,          \* Client.Context of each client: a Go map, key -> value
    hist,         \* ghost: the Set/Del/Get calls made so far, oldest first
    before,       \* ghost: ctx as it was before the latest context operation
    got,          \* the latest Get call and the value it returned
    endpoint,     \* Client.Endpoint of each client
    pc,           \* where the reporting goroutine is inside Report
    rc,           \* the client the running Report was called on
    notice,       \* the notice built by buildNotice (holds the map by reference)
    ctxAtBuild,   \* ghost: the content of the context map when the notice was built
    jsonBody,     \* the bytes produced by json.Marshal(notice)
    res,          \* what client.Do returned: response and error
    bodyClosed,   \* whether res.Body.Close() has run
    ret,          \* what Report returned: identifier and error
    sent,         \* the POST requests issued so far, oldest first
    sentAtCall,   \* ghost: Len(sent) when the running Report was entered
    calls,        \* the number of Report calls entered so far
    goRoot,       \* runtime.GOROOT(), the prefix rootFilter is compiled from
    projectRoot,  \* Client.ProjectRoot
    file,         \* the path last handed to filterPath
    filtered,     \* what filterPath returned for it
    newStack,     \* ghost: the call stack of the caller of New
    callerStack,  \* the call stack of the caller of the latest Report or Reportf
    entry,        \* the latest function called: New, Report, Reportf, filterPath
    backtrace     \* the backtrace of the latest notice

ctxVars    == <<ctx, hist, before, got>>
reportVars == <<endpoint, pc, rc, notice, ctxAtBuild, jsonBody, res, bodyClosed,
                ret, sent, sentAtCall, calls>>
filterVars == <<goRoot, file, filtered>>
stackVars  == <<newStack, callerStack, entry, backtrace>>
vars == <<ctxVars, reportVars, filterVars, stackVars, projectRoot>>

----------------------------------------------------------------------------
(* Bounds of the model.                                                    *)

MaxOps == 3        \* context operations in one history
MaxReports == 2    \* Report calls in one run
MaxLen == 3        \* characters of a path handed to filterPath
MaxRootLen == 2    \* characters of a root handed to filterPath
MaxDepth == 3      \* frames of the caller's call stack

----------------------------------------------------------------------------
(* context.go                                                              *)

Clients == {"c1", "c2"}
Keys == {"user", "req"}
Nil == "nil"
Values == {"v1", "v2", Nil}

\* type Context map[string]interface{}: the empty map of make(Context)
Context == [k \in {} |-> Nil]

\* func (ctx Context) Get(key string) interface{}
Get(m, key) == IF key \in DOMAIN m THEN m[key] ELSE Nil

\* func (ctx Context) Set(key string, value interface{})
Set(m, key, value) ==
    [k \in DOMAIN m \cup {key} |-> IF k = key THEN value ELSE m[k]]

DelKeepsKey(m, key) == m

\* func (ctx Context) Del(key string)
Del(m, key) == [k \in DOMAIN m \ {key} |-> m[k]]

----------------------------------------------------------------------------
(* Strings as character sequences, and the library functions used on them. *)

\* strings.HasPrefix: the anchored match of "^" + regexp.QuoteMeta(prefix)
HasPrefix(s, prefix) ==
    /\ Len(prefix) <= Len(s)
    /\ SubSeq(s, 1, Len(prefix)) = prefix

\* the index of the last "/" of s, 0 when there is none (the loop of filepath.Dir)
LastSlash(s) ==
    LET at == {i \in 1..Len(s) : s[i] = "/"}
    IN  IF at = {} THEN 0 ELSE CHOOSE i \in at : \A j \in at : j <= i

RECURSIVE SplitFrom(_, _, _)
\* the "/"-separated elements of s from position i on, cur being the one in progress
SplitFrom(s, i, cur) ==
    IF i > Len(s) THEN <<cur>>
    ELSE IF s[i] = "/" THEN <<cur>> \o SplitFrom(s, i + 1, << >>)
    ELSE SplitFrom(s, i + 1, Append(cur, s[i]))

\* one element of the path handled by filepath.Clean
CleanStep(out, elem, rooted) ==
    IF elem = << >> \/ elem = <<".">> THEN out
    ELSE IF elem = <<".", ".">>
         THEN IF Len(out) > 0 /\ out[Len(out)] # <<".", ".">>
              THEN SubSeq(out, 1, Len(out) - 1)
              ELSE IF rooted THEN out ELSE Append(out, elem)
    ELSE Append(out, elem)

RECURSIVE CleanFold(_, _, _, _)
CleanFold(elems, i, out, rooted) ==
    IF i > Len(elems) THEN out
    ELSE CleanFold(elems, i + 1, CleanStep(out, elems[i], rooted), rooted)

RECURSIVE Join(_, _)
\* the elements from the i-th on, joined by "/"
Join(elems, i) ==
    IF i > Len(elems) THEN << >>
    ELSE IF i = Len(elems) THEN elems[i]
    ELSE elems[i] \o <<"/">> \o Join(elems, i + 1)

\* filepath.Clean on a slash-separated path
Clean(path) ==
    IF path = << >> THEN <<".">>
    ELSE LET rooted == path[1] = "/"
             out == CleanFold(SplitFrom(path, 1, << >>), 1, << >>, rooted)
             body == Join(out, 1)
         IN  IF rooted THEN <<"/">> \o body
             ELSE IF body = << >> THEN <<".">> ELSE body

\* filepath.Dir: all but the last element of path, cleaned
Dir(path) == Clean(SubSeq(path, 1, LastSlash(path)))

----------------------------------------------------------------------------
(* honeybadger.go: filterPath                                              *)

GoRootToken == <<"[", "G", "O", "_", "R", "O", "O", "T", "]">>
ProjectRootToken ==
    <<"[", "P", "R", "O", "J", "E", "C", "T", "_", "R", "O", "O", "T", "]">>

\* regexp.MustCompile("^" + regexp.QuoteMeta(root)).ReplaceAllString(s, repl):
\* the pattern matches the literal root at the start of s and nowhere else
ReplaceAnchored(root, s, repl) ==
    IF HasPrefix(s, root) THEN repl \o SubSeq(s, Len(root) + 1, Len(s)) ELSE s

\* func (c *Client) filterPath(file string) string, with rootFilter compiled
\* from runtime.GOROOT() = gr and c.ProjectRoot = pr
filterPath(gr, pr, f) ==
    LET f1 == ReplaceAnchored(gr, f, GoRootToken)
    IN  IF pr # << >> THEN ReplaceAnchored(pr, f1, ProjectRootToken) ELSE f1

----------------------------------------------------------------------------
(* honeybadger.go: the call stack, detectProjectRoot, stacktraceFrames     *)

\* A frame of the call stack, as runtime.Caller and runtime.FuncForPC report
\* it: the source file, the line, and the function name ("" when FuncForPC
\* returns nil).
Frame(f, n, m) == [file |-> f, number |-> n, method |-> m]

LibFile == <<"/", "l", "/", "h">>
ReportFrame == Frame(LibFile, 120, "Client.Report")
ReportfFrame == Frame(LibFile, 154, "Client.Reportf")
buildNoticeFrame == Frame(LibFile, 172, "Client.buildNotice")
stacktraceFramesFrame == Frame(LibFile, 207, "Client.stacktraceFrames")
NewFrame == Frame(LibFile, 82, "New")
detectProjectRootFrame == Frame(LibFile, 94, "detectProjectRoot")

\* The frames a caller's stack is made of: application code in the project
\* directory /p and below it, runtime code under GOROOT = /g, and a frame
\* whose function cannot be resolved.
InstalledGoRoot == <<"/", "g">>
CallerFrames ==
    { Frame(<<"/", "p", "/", "a">>, 14, "main.main"),
      Frame(<<"/", "p", "/", "s", "/", "b">>, 24, "main.reportPanic"),
      Frame(<<"/", "g", "/", "r">>, 250, "runtime.main"),
      Frame(<<"/", "c">>, 7, "") }

\* the call stacks of a caller, innermost frame first
CallerStacks == UNION {[1..n -> CallerFrames] : n \in 1..MaxDepth}

\* runtime.Caller(skip) on a stack whose first element is the function calling
\* runtime.Caller
RuntimeCaller(stack, skip) ==
    IF skip + 1 <= Len(stack)
    THEN [ok |-> TRUE, frame |-> stack[skip + 1]]
    ELSE [ok |-> FALSE, frame |-> Frame(<< >>, 0, "")]

RECURSIVE CallerFiles(_, _)
\* the loop of detectProjectRoot: the files of runtime.Caller(i), i, i+1, ...
CallerFiles(stack, i) ==
    LET c == RuntimeCaller(stack, i)
    IN  IF ~c.ok THEN << >> ELSE <<c.frame.file>> \o CallerFiles(stack, i + 1)

detectProjectRootSecondLast(stack) ==
    LET files == CallerFiles(stack, 1)
    IN  IF Len(files) < 2 THEN << >> ELSE Dir(files[Len(files) - 1])

\* func detectProjectRoot() string, stack being the stack inside it
detectProjectRoot(stack) ==
    LET files == CallerFiles(stack, 1)
    IN  IF Len(files) < 3 THEN << >> ELSE Dir(files[Len(files) - 2])

\* New(apiKey): the project root of the client it returns, called from st
New(st) == detectProjectRoot(<<detectProjectRootFrame, NewFrame>> \o st)

\* the body of the loop of stacktraceFrames: the entry appended for a frame
backtraceEntry(gr, pr, frame) ==
    [ file |-> filterPath(gr, pr, frame.file),
      number |-> frame.number,
      method |-> IF frame.method = "" THEN "unknown" ELSE frame.method ]

RECURSIVE stacktraceFrames(_, _, _, _)
\* func (c *Client) stacktraceFrames(skip int), stack being the stack inside it
stacktraceFrames(gr, pr, stack, skip) ==
    LET c == RuntimeCaller(stack, skip)
    IN  IF ~c.ok THEN << >>
        ELSE <<backtraceEntry(gr, pr, c.frame)>>
             \o stacktraceFrames(gr, pr, stack, skip + 1)

\* the "backtrace" of buildNotice(message, skip), stack being the stack inside
\* buildNotice
buildNoticeBacktrace(gr, pr, stack, skip) ==
    stacktraceFrames(gr, pr, <<stacktraceFramesFrame>> \o stack, 3 + skip)

\* the backtrace of the notice of Report(e), called from st
ReportBacktrace(gr, pr, st) ==
    buildNoticeBacktrace(gr, pr, <<buildNoticeFrame, ReportFrame>> \o st, 2)

\* the backtrace of the notice of Reportf(format, params...), called from st
ReportfBacktrace(gr, pr, st) == ReportBacktrace(gr, pr, <<ReportfFrame>> \o st)

----------------------------------------------------------------------------
(* honeybadger.go: Report, Reportf, buildNotice, extractErrorID            *)

DefaultEndpoint == "https://api.honeybadger.io/v1/notices"
MalformedEndpoint == "://"
DefaultNotifierName == "honeybadger-go"
DefaultNotifierURL == "https://github.com/hashrabbit/honeybadger-go"

\* a value that encoding/json cannot serialize (a channel, a func)
Chan == "chan"

NoError == [kind |-> "nil", msg |-> << >>]
Error(k, m) == [kind |-> k, msg |-> m]

\* The values handed to Report: an error (its Error() text is the message)
\* or any other value (fmt.Sprintf("%v", e) is the message).
ErrValues ==
    { [isError |-> TRUE, text |-> <<"boom">>],
      [isError |-> FALSE, text |-> <<"oh no!">>] }

\* the switch of Report: e.Error() for an error, fmt.Sprintf("%v", e) otherwise
Message(e) == e.text

\* fmt.Sprintf(format, params...): the verbs of format, in order, are
\* replaced by the params; format is a sequence of literal pieces and verbs
RECURSIVE Sprintf(_, _)
Sprintf(format, params) ==
    IF format = << >> THEN << >>
    ELSE IF format[1] \in {"%s", "%v"}
         THEN IF params = << >>
              THEN <<"%!(MISSING)">> \o Sprintf(Tail(format), params)
              ELSE <<params[1]>> \o Sprintf(Tail(format), Tail(params))
    ELSE <<format[1]>> \o Sprintf(Tail(format), params)

\* func (c *Client) buildNotice(message string, skip int): the "context"
\* entry is c.Context itself, the map and not a copy of it, written here as
\* the name of the client that owns the map
buildNotice(c, message, pr) ==
    [ notifier |-> [name |-> DefaultNotifierName, url |-> DefaultNotifierURL,
                    language |-> "go"],
      error |-> [class |-> "", message |-> message],
      request |-> [context |-> c],
      server |-> [environment_name |-> "production", project_root |-> pr] ]

NoNotice == buildNotice("none", << >>, << >>)

\* json.Marshal(notice), m being what the context map holds when Marshal
\* walks it: it fails on a value it cannot serialize
Marshal(n, m) ==
    IF \E k \in DOMAIN m : m[k] = Chan
    THEN [ok |-> FALSE, message |-> << >>, context |-> Context]
    ELSE [ok |-> TRUE, message |-> n.error.message, context |-> m]

NoJSON == [ok |-> FALSE, message |-> << >>, context |-> Context]

\* http.NewRequest("POST", c.Endpoint, ...): fails when the URL does not parse
NewRequest(url) == url # MalformedEndpoint

\* The bodies of a response, by what encoding/json makes of them when it
\* unmarshals into struct{ ID string `json:"id"` }:
\*   id_string  {"id":"abc123"}    id_number  {"id":5}     no_id  {}
\*   null       null               array      [1]          malformed  {"id
\* unreadable: ioutil.ReadAll returns an error
Body(r, k, v) == [readable |-> r, kind |-> k, id |-> v]
Bodies ==
    { Body(TRUE, "id_string", "abc123"), Body(TRUE, "id_string", ""),
      Body(TRUE, "id_number", ""), Body(TRUE, "no_id", ""),
      Body(TRUE, "null", ""), Body(TRUE, "array", ""),
      Body(TRUE, "malformed", ""), Body(FALSE, "id_string", "abc123") }
Statuses == {199, 200, 201, 299, 300, 422}

Response(s, b) == [present |-> TRUE, status |-> s, body |-> b]
NoResponse == [present |-> FALSE, status |-> 0, body |-> Body(TRUE, "null", "")]

\* What client.Do(req) can return (net/http): a response and no error; no
\* response and an error (connection refused, timeout, DNS); or, when the
\* redirect policy stops the request, the last response, its body already
\* closed, together with an error.
DoOutcomes ==
    { [response |-> Response(s, b), err |-> NoError, closedByDo |-> FALSE] :
          s \in Statuses, b \in Bodies }
    \cup { [response |-> NoResponse, err |-> Error("transport", << >>),
            closedByDo |-> FALSE] }
    \cup { [response |-> Response(302, Body(TRUE, "malformed", "")),
            err |-> Error("redirect", << >>), closedByDo |-> TRUE] }

NoOutcome == [response |-> NoResponse, err |-> NoError, closedByDo |-> FALSE]

Digit(d) == <<"0", "1", "2", "3", "4", "5", "6", "7", "8", "9">>[d + 1]

RECURSIVE Itoa(_)
\* the %d of fmt.Errorf: n >= 0 in decimal
Itoa(n) == IF n < 10 THEN <<Digit(n)>> ELSE Itoa(n \div 10) \o <<Digit(n % 10)>>

\* fmt.Errorf("unexpected status code %d", res.StatusCode)
StatusError(status) ==
    Error("status", <<"u", "n", "e", "x", "p", "e", "c", "t", "e", "d", " ",
                      "s", "t", "a", "t", "u", "s", " ", "c", "o", "d", "e", " ">>
                    \o Itoa(status))

IsSuccessUpTo300(status) == status >= 200 /\ status <= 300

\* the test of Report: res.StatusCode/100 != 2 is a failure
IsSuccess(status) == status \div 100 = 2

\* func extractErrorID(res *http.Response) (string, error)
extractErrorID(response) ==
    LET b == response.body
    IN  IF ~b.readable THEN [id |-> "", err |-> Error("read", << >>)]
        ELSE IF b.kind \in {"malformed", "array", "id_number"}
             THEN [id |-> "", err |-> Error("json", << >>)]
        ELSE IF b.kind = "id_string" THEN [id |-> b.id, err |-> NoError]
        ELSE [id |-> "", err |-> NoError]

DoRequestsWithRetry(req, out) ==
    IF out.err # NoError \/ ~IsSuccess(out.response.status)
    THEN <<req, req>> ELSE <<req>>

\* the requests put on the wire by Report for one outcome of client.Do: Do
\* is called once, whatever it returns
DoRequests(req, out) == <<req>>

\* defer res.Body.Close() evaluates res.Body when the defer statement runs:
\* with res = nil it dereferences a nil pointer and Report panics
DeferPanics(out) == ~out.response.present

CloseOnSuccessOnly(out) ==
    out.closedByDo \/ (out.err = NoError /\ IsSuccess(out.response.status))

\* whether the body of the response is closed once Report has returned: the
\* deferred Close runs on every return that follows the defer statement
BodyClosedOnReturn(out) == TRUE

\* what Report returns after client.Do returned out with a response
Respond(out) ==
    IF out.err # NoError THEN [id |-> "", err |-> out.err]
    ELSE IF ~IsSuccess(out.response.status)
         THEN [id |-> "", err |-> StatusError(out.response.status)]
    ELSE extractErrorID(out.response)

NoReturn == [id |-> "", err |-> NoError]

----------------------------------------------------------------------------
(* The initial values of each part of the state.                           *)

NoGet == [client |-> "none", key |-> "none", value |-> Nil]

CtxInit ==
    /\ ctx = [c \in Clients |-> Context]
    /\ hist = << >>
    /\ before = [c \in Clients |-> Context]
    /\ got = NoGet

ReportInit ==
    /\ endpoint = [c \in Clients |-> DefaultEndpoint]
    /\ pc = "idle"
    /\ rc = "none"
    /\ notice = NoNotice
    /\ ctxAtBuild = Context
    /\ jsonBody = NoJSON
    /\ res = NoOutcome
    /\ bodyClosed = FALSE
    /\ ret = NoReturn
    /\ sent = << >>
    /\ sentAtCall = 0
    /\ calls = 0

FilterInit ==
    /\ goRoot = InstalledGoRoot
    /\ file = << >>
    /\ filtered = << >>

StackInit ==
    /\ newStack = << >>
    /\ callerStack = << >>
    /\ entry = "none"
    /\ backtrace = << >>

----------------------------------------------------------------------------
(* The context operations of a program that uses two clients.              *)

Op(o, c, k, v) == [op |-> o, client |-> c, key |-> k, value |-> v]

CallSet(c, k, v) ==
    /\ Len(hist) < MaxOps
    /\ ctx' = [ctx EXCEPT ![c] = Set(ctx[c], k, v)]
    /\ hist' = Append(hist, Op("Set", c, k, v))
    /\ before' = ctx
    /\ UNCHANGED <<got, reportVars, filterVars, stackVars, projectRoot>>

CallDel(c, k) ==
    /\ Len(hist) < MaxOps
    /\ ctx' = [ctx EXCEPT ![c] = Del(ctx[c], k)]
    /\ hist' = Append(hist, Op("Del", c, k, Nil))
    /\ before' = ctx
    /\ UNCHANGED <<got, reportVars, filterVars, stackVars, projectRoot>>

CallGet(c, k) ==
    /\ Len(hist) < MaxOps
    /\ got' = [client |-> c, key |-> k, value |-> Get(ctx[c], k)]
    /\ hist' = Append(hist, Op("Get", c, k, Nil))
    /\ before' = ctx
    /\ UNCHANGED <<ctx, reportVars, filterVars, stackVars, projectRoot>>

InitCtx == CtxInit /\ ReportInit /\ FilterInit /\ StackInit /\ projectRoot = << >>

NextCtx ==
    \/ \E c \in Clients, k \in Keys, v \in Values : CallSet(c, k, v)
    \/ \E c \in Clients, k \in Keys : CallDel(c, k)
    \/ \E c \in Clients, k \in Keys : CallGet(c, k)

SpecCtx == InitCtx /\ [][NextCtx]_vars

----------------------------------------------------------------------------
(* One call of filterPath, on every path and every pair of roots.          *)

Alphabet == {"/", "a", "b"}
Paths == UNION {[1..n -> Alphabet] : n \in 0..MaxLen}
Roots == UNION {[1..n -> Alphabet] : n \in 0..MaxRootLen}

CallFilterPath(f) ==
    /\ entry = "none"
    /\ file' = f
    /\ filtered' = filterPath(goRoot, projectRoot, f)
    /\ entry' = "filterPath"
    /\ UNCHANGED <<goRoot, projectRoot, newStack, callerStack, backtrace,
                   ctxVars, reportVars>>

InitFilter ==
    /\ CtxInit /\ ReportInit /\ StackInit
    /\ goRoot \in Roots
    /\ projectRoot \in Roots
    /\ file = << >>
    /\ filtered = << >>

NextFilter == \E f \in Paths : CallFilterPath(f)

SpecFilter == InitFilter /\ [][NextFilter]_vars

----------------------------------------------------------------------------
(* New on every call stack, then the first Report or Reportf on every call *)
(* stack: the project root and the backtrace.                              *)

CallNew(st) ==
    /\ entry = "none"
    /\ projectRoot' = New(st)
    /\ newStack' = st
    /\ entry' = "New"
    /\ UNCHANGED <<callerStack, backtrace, ctxVars, reportVars, filterVars>>

StackReport(st) ==
    /\ entry = "New"
    /\ backtrace' = ReportBacktrace(goRoot, projectRoot, st)
    /\ callerStack' = st
    /\ entry' = "Report"
    /\ UNCHANGED <<newStack, projectRoot, ctxVars, reportVars, filterVars>>

StackReportf(st) ==
    /\ entry = "New"
    /\ backtrace' = ReportfBacktrace(goRoot, projectRoot, st)
    /\ callerStack' = st
    /\ entry' = "Reportf"
    /\ UNCHANGED <<newStack, projectRoot, ctxVars, reportVars, filterVars>>

InitStack == CtxInit /\ ReportInit /\ FilterInit /\ StackInit /\ projectRoot = << >>

NextStack ==
    \/ \E st \in CallerStacks : CallNew(st)
    \/ \E st \in CallerStacks : StackReport(st)
    \/ \E st \in CallerStacks : StackReportf(st)

SpecStack == InitStack /\ [][NextStack]_vars

----------------------------------------------------------------------------
(* Report and Reportf on one client, step by step, while another goroutine *)
(* of the program changes the contexts.  Report is split where it reads    *)
(* shared state or leaves the process: building the notice, serializing    *)
(* it, and sending it.                                                     *)

Reporters == {"c1"}
SharedKeys == {"user"}
SharedValues == {"v1", Chan}
Formats == { [format |-> <<"a ", "%s", " error">>, params |-> <<"formatted">>] }

\* the start of Report(e) on client c, up to and including buildNotice
ReportCall(c, e) ==
    /\ pc = "idle"
    /\ calls < MaxReports
    /\ calls' = calls + 1
    /\ rc' = c
    /\ notice' = buildNotice(c, Message(e), projectRoot)
    /\ ctxAtBuild' = ctx[c]
    /\ sentAtCall' = Len(sent)
    /\ jsonBody' = NoJSON
    /\ res' = NoOutcome
    /\ bodyClosed' = FALSE
    /\ ret' = NoReturn
    /\ pc' = "built"
    /\ UNCHANGED <<endpoint, sent, ctxVars, filterVars, stackVars, projectRoot>>

\* Reportf(format, params...) on client c: Report(fmt.Sprintf(format, params...))
ReportfCall(c, f) ==
    ReportCall(c, [isError |-> FALSE, text |-> Sprintf(f.format, f.params)])

\* jsonBody, err := json.Marshal(notice): walks the map the notice refers to,
\* as it is when Marshal runs (the walk itself is taken as one read)
ReportMarshal ==
    /\ pc = "built"
    /\ LET m == Marshal(notice, ctx[notice.request.context])
       IN  /\ jsonBody' = m
           /\ IF m.ok
              THEN pc' = "marshalled" /\ ret' = ret
              ELSE pc' = "returned" /\ ret' = [id |-> "", err |-> Error("marshal", << >>)]
    /\ UNCHANGED <<endpoint, rc, notice, ctxAtBuild, res, bodyClosed, sent,
                   sentAtCall, calls, ctxVars, filterVars, stackVars, projectRoot>>

\* the rest of Report: http.NewRequest, client.Do, defer res.Body.Close(),
\* the checks of err and of the status code, extractErrorID and the return;
\* out is what client.Do returns
ReportSend(out) ==
    /\ pc = "marshalled"
    /\ IF ~NewRequest(endpoint[rc])
       THEN /\ ret' = [id |-> "", err |-> Error("request", << >>)]
            /\ pc' = "returned"
            /\ UNCHANGED <<sent, res, bodyClosed>>
       ELSE /\ sent' = sent \o DoRequests([apiKey |-> rc, message |-> jsonBody.message], out)
            /\ res' = out
            /\ IF DeferPanics(out)
               THEN /\ pc' = "panicked"
                    /\ ret' = ret
                    /\ bodyClosed' = FALSE
               ELSE /\ pc' = "returned"
                    /\ ret' = Respond(out)
                    /\ bodyClosed' = (out.closedByDo \/ BodyClosedOnReturn(out))
    /\ UNCHANGED <<endpoint, rc, notice, ctxAtBuild, jsonBody, sentAtCall, calls,
                   ctxVars, filterVars, stackVars, projectRoot>>

\* the caller takes what Report returned, or recovers from its panic, and
\* goes on
ReportDone ==
    /\ pc \in {"returned", "panicked"}
    /\ pc' = "idle"
    /\ rc' = "none"
    /\ notice' = NoNotice
    /\ ctxAtBuild' = Context
    /\ jsonBody' = NoJSON
    /\ res' = NoOutcome
    /\ bodyClosed' = FALSE
    /\ ret' = NoReturn
    /\ UNCHANGED <<endpoint, sent, sentAtCall, calls, ctxVars, filterVars,
                   stackVars, projectRoot>>

\* another goroutine calls c.Context.Set(k, v)
ConcurrentSet(c, k, v) ==
    /\ ctx' = [ctx EXCEPT ![c] = Set(ctx[c], k, v)]
    /\ UNCHANGED <<hist, before, got, reportVars, filterVars, stackVars, projectRoot>>

\* another goroutine calls c.Context.Del(k)
ConcurrentDel(c, k) ==
    /\ ctx' = [ctx EXCEPT ![c] = Del(ctx[c], k)]
    /\ UNCHANGED <<hist, before, got, reportVars, filterVars, stackVars, projectRoot>>

\* the program assigns c.Endpoint between two reports
SetEndpoint(c, url) ==
    /\ pc = "idle"
    /\ endpoint' = [endpoint EXCEPT ![c] = url]
    /\ UNCHANGED <<pc, rc, notice, ctxAtBuild, jsonBody, res, bodyClosed, ret, sent,
                   sentAtCall, calls, ctxVars, filterVars, stackVars, projectRoot>>

Init ==
    /\ CtxInit /\ ReportInit /\ FilterInit /\ StackInit
    /\ projectRoot = << >>

Next ==
    \/ \E c \in Reporters, e \in ErrValues : ReportCall(c, e)
    \/ \E c \in Reporters, f \in Formats : ReportfCall(c, f)
    \/ ReportMarshal
    \/ \E out \in DoOutcomes : ReportSend(out)
    \/ ReportDone
    \/ \E c \in Clients, k \in SharedKeys, v \in SharedValues : ConcurrentSet(c, k, v)
    \/ \E c \in Clients, k \in SharedKeys : ConcurrentDel(c, k)
    \/ \E c \in Reporters, url \in {DefaultEndpoint, MalformedEndpoint} : SetEndpoint(c, url)

Spec == Init /\ [][Next]_vars

----------------------------------------------------------------------------
(* The claims.                                                             *)

Ended == pc \in {"returned", "panicked"}

\* C1: when client.Do fails at the transport level (an error and no response),
\* Report returns an empty identifier and a non-nil error, and does not panic.
C1_TransportFailureReturnsError ==
    (Ended /\ res.err.kind = "transport" /\ ~res.response.present)
        => (pc = "returned" /\ ret.id = "" /\ ret.err # NoError)

\* C2: the first backtrace entry of a notice is the frame of the function that
\* directly called the entry point, for Report and for Reportf alike.
C2_BacktraceStartsAtCaller ==
    entry \in {"Report", "Reportf"}
        => /\ Len(backtrace) >= 1
           /\ backtrace[1] = backtraceEntry(goRoot, projectRoot, callerStack[1])

\* C3: the context serialized into a notice is the content the client's map
\* had when the notice was built, whatever Set or Del another goroutine does
\* afterwards.
C3_ContextIsSnapshot ==
    (pc \in {"marshalled", "returned", "panicked"} /\ jsonBody.ok)
        => jsonBody.context = ctxAtBuild

IsDigit(ch) == ch \in {"0", "1", "2", "3", "4", "5", "6", "7", "8", "9"}
DigitValue(ch) == CHOOSE d \in 0..9 : Digit(d) = ch

RECURSIVE DecimalValue(_)
DecimalValue(ds) ==
    IF ds = << >> THEN 0
    ELSE 10 * DecimalValue(SubSeq(ds, 1, Len(ds) - 1)) + DigitValue(ds[Len(ds)])

\* msg holds the decimal numeral of n
HasDecimal(msg, n) ==
    \E i \in 1..Len(msg), j \in 1..Len(msg) :
        /\ i <= j
        /\ \A x \in i..j : IsDigit(msg[x])
        /\ (msg[i] # "0" \/ i = j)
        /\ DecimalValue(SubSeq(msg, i, j)) = n

RECURSIVE Expected(_, _, _)
\* what the context of client c holds for key k after the calls of history h:
\* the value of the latest Set(k, v) on c unless a Del(k) on c followed it
Expected(h, c, k) ==
    IF h = << >> THEN Nil
    ELSE LET o == h[Len(h)]
         IN  IF o.client = c /\ o.key = k /\ o.op = "Set" THEN o.value
             ELSE IF o.client = c /\ o.key = k /\ o.op = "Del" THEN Nil
             ELSE Expected(SubSeq(h, 1, Len(h) - 1), c, k)

\* C6: Get(k) on a client gives the value of the latest Set(k, v) on that
\* client unless a Del(k) on it followed, and nil otherwise; Del of an absent
\* key changes nothing; no operation on one client changes the other's context.
C6_ContextSemantics ==
    /\ \A c \in Clients, k \in Keys : Get(ctx[c], k) = Expected(hist, c, k)
    /\ hist # << >> =>
         LET o == hist[Len(hist)]
         IN  /\ o.op = "Get" =>
                   /\ got = [client |-> o.client, key |-> o.key,
                             value |-> Expected(hist, o.client, o.key)]
                   /\ ctx = before
             /\ (o.op = "Del" /\ o.key \notin DOMAIN before[o.client]) => ctx = before
             /\ \A c \in Clients \ {o.client} : ctx[c] = before[c]

C6_Witness ==
    /\ Len(hist) = 3
    /\ hist[1] = Op("Set", "c1", "user", "v1")
    /\ hist[2] = Op("Del", "c1", "user", Nil)
    /\ hist[3] = Op("Get", "c1", "user", Nil)
    /\ got = [client |-> "c1", key |-> "user", value |-> Nil]
    /\ ctx["c2"] = Context

Rest(s, prefix) == SubSeq(s, Len(prefix) + 1, Len(s))

\* C7: filterPath substitutes anchored prefixes only: a path that begins with
\* the non-empty project root becomes "[PROJECT_ROOT]" and the rest, a path
\* that begins with the runtime root has that prefix replaced by "[GO_ROOT]",
\* no project-root substitution happens with an empty project root, and a
\* path with no matching prefix is returned unchanged.
C7_PrefixSubstitution ==
    entry = "filterPath" =>
        /\ (projectRoot # << >> /\ HasPrefix(file, projectRoot))
               => filtered = ProjectRootToken \o Rest(file, projectRoot)
        /\ (HasPrefix(file, goRoot) /\ ~(projectRoot # << >> /\ HasPrefix(file, projectRoot)))
               => filtered = GoRootToken \o Rest(file, goRoot)
        /\ (~HasPrefix(file, goRoot) /\ ~(projectRoot # << >> /\ HasPrefix(file, projectRoot)))
               => filtered = file

\* C8: whenever a Report call has ended, a response body that was obtained
\* has been closed.
C8_BodyClosed ==
    (Ended /\ res.response.present) => bodyClosed

C8_Witness ==
    /\ pc = "returned"
    /\ res.response.present
    /\ res.response.status = 422
    /\ bodyClosed

\* d is the directory of the file f: f is d, a "/" and a last element
IsDirOf(d, f) ==
    \E n \in 1..Len(f) :
        /\ \A i \in n..Len(f) : f[i] # "/"
        /\ \/ f = d \o <<"/">> \o SubSeq(f, n, Len(f))
           \/ (d = <<"/">> /\ f = d \o SubSeq(f, n, Len(f)))

\* C9: with fewer than three frames from New outward the project root is
\* empty; otherwise it is the directory of the file of the third frame from
\* the outermost end; a later Report or Reportf leaves it as New set it.
C9_ProjectRoot ==
    entry # "none" =>
        LET frames == <<NewFrame>> \o newStack
        IN  IF Len(frames) < 3 THEN projectRoot = << >>
            ELSE IsDirOf(projectRoot, frames[Len(frames) - 2].file)

C9_Witness ==
    /\ entry \in {"Report", "Reportf"}
    /\ Len(newStack) = 3
    /\ newStack[1].method = "main.main"
    /\ projectRoot = <<"/", "p">>

====
